---- MODULE Spec2Model ----
(***************************************************************************)
(* Model of the Google Maps geocoding MCP adapter: GeocodingTool and       *)
(* loadConfig (src/src/geocoding-tool.ts), main and the CallTool handler   *)
(* of the server (src/unnamed/part_002).  The server loads its config and  *)
(* connects; one tool invocation is then validated, turned into an         *)
(* outbound parameter set, sent to the upstream client, its outcome        *)
(* normalised by handleError and the response serialized as the reply.     *)
(*                                                                         *)
(* Strings that the code inspects character by character (address,         *)
(* latlng, place_id, language, region) are sequences of one-character      *)
(* strings.  Fixed texts (error messages, statuses) are TLA+ strings.      *)
(***************************************************************************)
EXTENDS Integers, Sequences, FiniteSets, TLC

VARIABLES
  env,            \* process.env: the environment the server was started in
  process,        \* "starting", "connecting", "running" or "exited"; "hosted"
                  \* when the tool was constructed by another program
  exitCode,       \* the code process.exit was called with, -1 before that
  stderr,         \* the lines written with console.error
  config,         \* the ServerConfig held by the GeocodingTool
  pc,             \* "idle", "pending" (awaiting the upstream client), "done"
                  \* or "refused" (answered without calling the tool)
  tool,           \* which operation the request in hand invoked
  args,           \* its argument blob
  validation,     \* what its validate*Params threw, NoError when nothing
  outbound,       \* the upstream call it issued: operation, params, timeout
  upstreamCalls,  \* number of upstream calls issued for it
  outcome,        \* how that upstream call settled
  result,         \* how the operation ended: the response it returned
  reply,          \* what the CallTool handler answered the client
  peer            \* another invocation of the handler, suspended at its await
                  \* while the one in hand runs

vars == <<env, process, exitCode, stderr, config, pc, tool, args, validation,
          outbound, upstreamCalls, outcome, result, reply, peer>>

\* what no tool call touches
startup == <<env, process, exitCode, stderr>>

----------------------------------------------------------------------------
(* Bounds of the model *)

\* longest run of blanks / letters in the short addresses that are enumerated
MaxShort == 2
\* largest number of optional fields an argument blob carries at once
MaxOptional == 2
\* largest number of result records in an upstream body
MaxResults == 2

----------------------------------------------------------------------------
(* JavaScript values of the loosely typed argument blob *)

Undefined == [t |-> "undefined", v |-> <<>>, n |-> 0]
Null == [t |-> "null", v |-> <<>>, n |-> 0]
StrV(s) == [t |-> "string", v |-> s, n |-> 0]
NumV(k) == [t |-> "number", v |-> <<>>, n |-> k]
ArrV(s) == [t |-> "array", v |-> s, n |-> 0]
ObjV(s) == [t |-> "object", v |-> s, n |-> 0]

\* ToBoolean: what `!x`, `x || y` and `x && y` test
Truthy(x) ==
  CASE x.t = "undefined" -> FALSE
    [] x.t = "null" -> FALSE
    [] x.t = "string" -> x.v # <<>>
    [] x.t = "number" -> x.n # 0
    [] OTHER -> TRUE

\* a || b
Or(a, b) == IF Truthy(a) THEN a ELSE b

Repeat(c, n) == [i \in 1..n |-> c]

----------------------------------------------------------------------------
(* String helpers: String.prototype.trim, split(","), startsWith *)

WhiteSpace == {" ", "\t"}

\* s.trim(): drop the white space at both ends
trim(s) ==
  LET keep == {i \in 1..Len(s) : s[i] \notin WhiteSpace}
  IN IF keep = {} THEN <<>>
     ELSE LET lo == CHOOSE i \in keep : \A j \in keep : i <= j
              hi == CHOOSE i \in keep : \A j \in keep : j <= i
          IN SubSeq(s, lo, hi)

\* the white space parseFloat itself skips at the start
TrimStart(s) ==
  LET keep == {i \in 1..Len(s) : s[i] \notin WhiteSpace}
  IN IF keep = {} THEN <<>>
     ELSE SubSeq(s, CHOOSE i \in keep : \A j \in keep : i <= j, Len(s))

\* s.split(","): the pieces between the commas, empty pieces included
split(s) ==
  LET commas == {i \in 1..Len(s) : s[i] = ","}
      n == Cardinality(commas)
      Nth(k) == IF k = 0 THEN 0
                ELSE IF k = n + 1 THEN Len(s) + 1
                ELSE CHOOSE i \in commas :
                       Cardinality({j \in commas : j <= i}) = k
  IN [k \in 1..(n + 1) |-> SubSeq(s, Nth(k - 1) + 1, Nth(k) - 1)]

\* s.startsWith(p)
startsWith(s, p) == Len(s) >= Len(p) /\ SubSeq(s, 1, Len(p)) = p

----------------------------------------------------------------------------
(* parseFloat: the longest prefix that is a StrDecimalLiteral.  A number   *)
(* is kept exactly as sign, numerator and a power-of-ten denominator.      *)

Digits == {"0", "1", "2", "3", "4", "5", "6", "7", "8", "9"}

DigitVal(c) ==
  CASE c = "0" -> 0 [] c = "1" -> 1 [] c = "2" -> 2 [] c = "3" -> 3
    [] c = "4" -> 4 [] c = "5" -> 5 [] c = "6" -> 6 [] c = "7" -> 7
    [] c = "8" -> 8 [] c = "9" -> 9

\* last index of the run of digits that starts at i (i - 1 when there is none)
RunEnd(s, i) ==
  CHOOSE j \in (i - 1)..Len(s) :
    /\ \A k \in i..j : s[k] \in Digits
    /\ (j = Len(s) \/ s[j + 1] \notin Digits)

RECURSIVE DigitsValue(_, _, _)
DigitsValue(s, i, j) ==
  IF j < i THEN 0 ELSE DigitsValue(s, i, j - 1) * 10 + DigitVal(s[j])

RECURSIVE Pow10(_)
Pow10(n) == IF n = 0 THEN 1 ELSE 10 * Pow10(n - 1)

NaN == [nan |-> TRUE, inf |-> FALSE, neg |-> FALSE, num |-> 0, den |-> 1,
        used |-> 0]

InfinityWord == <<"I", "n", "f", "i", "n", "i", "t", "y">>

Finite(neg, num, den, used) ==
  [nan |-> FALSE, inf |-> FALSE, neg |-> neg, num |-> num, den |-> den,
   used |-> used]

\* the exponent part, if a complete one follows the mantissa that ends at
\* mantEnd; mant and fracLen are the mantissa's digits and its number of
\* fraction digits
ParseExponent(s, neg, mant, fracLen, mantEnd) ==
  LET hasE == mantEnd < Len(s) /\ s[mantEnd + 1] \in {"e", "E"}
      eSigned == hasE /\ mantEnd + 1 < Len(s) /\ s[mantEnd + 2] \in {"+", "-"}
      eStart == IF eSigned THEN mantEnd + 3 ELSE mantEnd + 2
      eEnd == IF hasE THEN RunEnd(s, eStart) ELSE mantEnd
  IN IF ~(hasE /\ eEnd >= eStart)
       THEN Finite(neg, mant, Pow10(fracLen), mantEnd)
     ELSE IF eSigned /\ s[mantEnd + 2] = "-"
       THEN Finite(neg, mant,
                   Pow10(fracLen + DigitsValue(s, eStart, eEnd)), eEnd)
     ELSE Finite(neg, mant * Pow10(DigitsValue(s, eStart, eEnd)),
                 Pow10(fracLen), eEnd)

\* the mantissa: digits, optionally a point and more digits, or a point
\* followed by digits; intEnd and fracEnd are the ends of the two digit runs
ParseMantissa(s, neg, start, intEnd, dot, fracEnd) ==
  LET hasInt == intEnd >= start
      hasFrac == dot /\ fracEnd >= intEnd + 2
      fracLen == IF hasFrac THEN fracEnd - (intEnd + 1) ELSE 0
  IN IF ~(hasInt \/ hasFrac) THEN NaN
     ELSE ParseExponent(
            s, neg,
            DigitsValue(s, start, intEnd) * Pow10(fracLen)
              + (IF hasFrac THEN DigitsValue(s, intEnd + 2, fracEnd) ELSE 0),
            fracLen,
            IF dot THEN fracEnd ELSE intEnd)

ParsePoint(s, neg, start, intEnd) ==
  IF intEnd < Len(s) /\ s[intEnd + 1] = "."
    THEN ParseMantissa(s, neg, start, intEnd, TRUE, RunEnd(s, intEnd + 2))
    ELSE ParseMantissa(s, neg, start, intEnd, FALSE, intEnd)

\* what follows the optional sign: Infinity or a decimal literal
ParseUnsigned(s, neg, start) ==
  IF startsWith(SubSeq(s, start, Len(s)), InfinityWord)
    THEN [nan |-> FALSE, inf |-> TRUE, neg |-> neg, num |-> 0, den |-> 1,
          used |-> start + 7]
    ELSE ParsePoint(s, neg, start, RunEnd(s, start))

ParseSigned(s) ==
  IF Len(s) >= 1 /\ s[1] \in {"+", "-"}
    THEN ParseUnsigned(s, s[1] = "-", 2)
    ELSE ParseUnsigned(s, FALSE, 1)

parseFloat(str) == ParseSigned(TrimStart(str))

isNaN(x) == x.nan

\* x >= k and x <= k for an integer k; false for NaN, as every comparison is
Geq(x, k) ==
  /\ ~x.nan
  /\ IF x.inf THEN ~x.neg
     ELSE (IF x.neg THEN 0 - x.num ELSE x.num) >= k * x.den

Leq(x, k) ==
  /\ ~x.nan
  /\ IF x.inf THEN x.neg
     ELSE (IF x.neg THEN 0 - x.num ELSE x.num) <= k * x.den

\* GeocodingTool.isValidLatLng
isValidLatLng(latlng) ==
  LET parts == split(latlng)
  IN IF Len(parts) # 2 THEN FALSE
     ELSE LET lat == parseFloat(trim(parts[1]))
              lng == parseFloat(trim(parts[2]))
          IN /\ ~isNaN(lat)
             /\ ~isNaN(lng)
             /\ Geq(lat, -90)
             /\ Leq(lat, 90)
             /\ Geq(lng, -180)
             /\ Leq(lng, 180)

----------------------------------------------------------------------------
(* Errors (what a throw or a rejected promise carries) and response data   *)

Absent == "<absent>"

\* a value of response.data / a GeocodeToolResponse as the caller sees it:
\* t is its JavaScript type, s its text when it is a string body
Body(st, rs, msg) ==
  [t |-> "object", s |-> "", status |-> st, hasResults |-> TRUE,
   results |-> rs, error_message |-> msg]

\* an object body that is not in the geocoding shape, e.g. {"error": {...}}
MalformedBody ==
  [t |-> "object", s |-> "", status |-> Absent, hasResults |-> FALSE,
   results |-> <<>>, error_message |-> Absent]

TextBody(txt) ==
  [t |-> "string", s |-> txt, status |-> Absent, hasResults |-> FALSE,
   results |-> <<>>, error_message |-> Absent]

NoData ==
  [t |-> "undefined", s |-> "", status |-> Absent, hasResults |-> FALSE,
   results |-> <<>>, error_message |-> Absent]

\* response.data is null
NullData ==
  [t |-> "null", s |-> "", status |-> Absent, hasResults |-> FALSE,
   results |-> <<>>, error_message |-> Absent]

\* ToBoolean of a response.data value
TruthyData(d) == d.t = "object" \/ (d.t = "string" /\ d.s # "")

NoError ==
  [thrown |-> FALSE, isObject |-> FALSE, isError |-> FALSE, message |-> "",
   str |-> "", hasResponse |-> FALSE, responseDefined |-> FALSE,
   data |-> NoData]

\* new Error(msg) and the TypeError the engine raises: an Error without a
\* response property
Error(msg) ==
  [thrown |-> TRUE, isObject |-> TRUE, isError |-> TRUE, message |-> msg,
   str |-> msg, hasResponse |-> FALSE, responseDefined |-> FALSE,
   data |-> NoData]

\* an Error that carries a response object whose data is d
HttpError(msg, d) ==
  [thrown |-> TRUE, isObject |-> TRUE, isError |-> TRUE, message |-> msg,
   str |-> msg, hasResponse |-> TRUE, responseDefined |-> TRUE, data |-> d]

\* an Error whose response property exists but is undefined
NoResponseError(msg) ==
  [thrown |-> TRUE, isObject |-> TRUE, isError |-> TRUE, message |-> msg,
   str |-> msg, hasResponse |-> TRUE, responseDefined |-> FALSE,
   data |-> NoData]

\* a thrown object that is no Error but has a response whose data is d:
\* String(error) is "[object Object]"
ResponseObject(d) ==
  [thrown |-> TRUE, isObject |-> TRUE, isError |-> FALSE, message |-> "",
   str |-> "[object Object]", hasResponse |-> TRUE, responseDefined |-> TRUE,
   data |-> d]

\* a thrown string: not an object, String(error) is its text
ThrownString(txt) ==
  [thrown |-> TRUE, isObject |-> FALSE, isError |-> FALSE, message |-> "",
   str |-> txt, hasResponse |-> FALSE, responseDefined |-> FALSE,
   data |-> NoData]

\* how a call of geocodeForward / geocodeReverse / geocodePlace ends
Return(d) == [kind |-> "return", value |-> d, error |-> NoError]
Throw(e) == [kind |-> "throw", value |-> NoData, error |-> e]
NoResult == [kind |-> "none", value |-> NoData, error |-> NoError]

INVALID_REQUEST == "INVALID_REQUEST"

\* the response handleError builds for a failure that has no usable payload
Synthesized(msg) == Body(INVALID_REQUEST, <<>>, msg)

\* handleError with the synthesized status changed to UNKNOWN_ERROR
handleError_UnknownError(error) ==
  IF /\ error.isObject
     /\ error.hasResponse
     /\ error.responseDefined
     /\ TruthyData(error.data)
    THEN Return(error.data)
    ELSE Return(Body("UNKNOWN_ERROR", <<>>,
                     IF error.isError THEN error.message ELSE error.str))

\* handleError rebuilding the response from the payload instead of
\* returning it: a missing status or error_message is filled in
handleError_Remapped(error) ==
  IF /\ error.isObject
     /\ error.hasResponse
     /\ error.responseDefined
     /\ TruthyData(error.data)
    THEN Return(Body(IF error.data.status = Absent THEN "ERROR"
                     ELSE error.data.status,
                     <<>>,
                     IF error.data.error_message = Absent THEN error.message
                     ELSE error.data.error_message))
    ELSE Return(Synthesized(IF error.isError THEN error.message
                            ELSE error.str))

\* handleError returning the payload whenever the response has a data
\* property, be it empty
handleError_AnyData(error) ==
  IF /\ error.isObject
     /\ error.hasResponse
     /\ error.responseDefined
     /\ error.data.t # "undefined"
    THEN Return(error.data)
    ELSE Return(Synthesized(IF error.isError THEN error.message
                            ELSE error.str))

\* GeocodingTool.handleError
handleError(error) ==
  IF /\ error.isObject
     /\ error.hasResponse
     /\ error.responseDefined
     /\ TruthyData(error.data)
    THEN Return(error.data)
    ELSE Return(Synthesized(IF error.isError THEN error.message
                            ELSE error.str))

----------------------------------------------------------------------------
(* Validation *)

MaxAddressLength == 2048

AddressRequired == "Address is required."
AddressTooLong == "Address must be less than 2048 characters."
LatlngRequired == "Latlng is required."
LatlngInvalid == "Invalid latlng format. Expected: \"latitude,longitude\""
PlaceIdRequired == "Place ID is required."
PlaceIdInvalid == "Invalid Place ID format. Must start with \"ChIJ\"."
LanguageInvalid == "Invalid language format. Expected: \"en\", \"en-US\", etc."
RegionInvalid == "Invalid region format. Expected: \"us\", \"uk\", etc."

\* the texts of the TypeErrors the engine raises inside the try blocks
ReadOfUndefined == "Cannot read properties of undefined"
NotAFunction == "is not a function"

Lower == {"a", "b", "c", "d", "e", "f", "g", "h", "i", "j", "k", "l", "m",
          "n", "o", "p", "q", "r", "s", "t", "u", "v", "w", "x", "y", "z"}
Upper == {"A", "B", "C", "D", "E", "F", "G", "H", "I", "J", "K", "L", "M",
          "N", "O", "P", "Q", "R", "S", "T", "U", "V", "W", "X", "Y", "Z"}

\* /^[a-z]{2}(-[A-Z]{2})?$/.test(s)
LanguagePattern(s) ==
  /\ Len(s) \in {2, 5}
  /\ s[1] \in Lower
  /\ s[2] \in Lower
  /\ Len(s) = 5 => (s[3] = "-" /\ s[4] \in Upper /\ s[5] \in Upper)

\* /^[a-z]{2}$/.test(s)
RegionPattern(s) == Len(s) = 2 /\ s[1] \in Lower /\ s[2] \in Lower

\* validateCommonParams looking at the region before the language
validateCommonParams_RegionFirst(params) ==
  IF Truthy(params.region) /\ ~RegionPattern(params.region.v)
    THEN Error(RegionInvalid)
  ELSE IF Truthy(params.language) /\ ~LanguagePattern(params.language.v)
    THEN Error(LanguageInvalid)
  ELSE NoError

\* validateCommonParams testing every language and region that is not
\* undefined, the empty string included
validateCommonParams_DefinedCheck(params) ==
  IF params.language.t = "string" /\ ~LanguagePattern(params.language.v)
    THEN Error(LanguageInvalid)
  ELSE IF params.region.t = "string" /\ ~RegionPattern(params.region.v)
    THEN Error(RegionInvalid)
  ELSE NoError

\* GeocodingTool.validateCommonParams (language and region are strings,
\* null or undefined in the blobs of this model)
validateCommonParams(params) ==
  IF Truthy(params.language) /\ ~LanguagePattern(params.language.v)
    THEN Error(LanguageInvalid)
  ELSE IF Truthy(params.region) /\ ~RegionPattern(params.region.v)
    THEN Error(RegionInvalid)
  ELSE NoError

\* validateForwardParams with the length rule off by one
validateForwardParams_OffByOne(params) ==
  IF ~params.present THEN Error(ReadOfUndefined)
  ELSE IF ~Truthy(params.address) THEN Error(AddressRequired)
  ELSE IF params.address.t # "string" THEN Error(NotAFunction)
  ELSE IF Len(trim(params.address.v)) = 0 THEN Error(AddressRequired)
  ELSE IF Len(params.address.v) >= MaxAddressLength THEN Error(AddressTooLong)
  ELSE validateCommonParams(params)

\* GeocodingTool.validateForwardParams
validateForwardParams(params) ==
  IF ~params.present THEN Error(ReadOfUndefined)
  ELSE IF ~Truthy(params.address) THEN Error(AddressRequired)
  ELSE IF params.address.t # "string" THEN Error(NotAFunction)
  ELSE IF Len(trim(params.address.v)) = 0 THEN Error(AddressRequired)
  ELSE IF Len(params.address.v) > MaxAddressLength THEN Error(AddressTooLong)
  ELSE validateCommonParams(params)

\* validateReverseParams leaving out the common rules
validateReverseParams_NoCommon(params) ==
  IF ~params.present THEN Error(ReadOfUndefined)
  ELSE IF ~Truthy(params.latlng) THEN Error(LatlngRequired)
  ELSE IF params.latlng.t = "string" /\ ~isValidLatLng(params.latlng.v)
    THEN Error(LatlngInvalid)
  ELSE NoError

\* GeocodingTool.validateReverseParams
validateReverseParams(params) ==
  IF ~params.present THEN Error(ReadOfUndefined)
  ELSE IF ~Truthy(params.latlng) THEN Error(LatlngRequired)
  ELSE IF params.latlng.t = "string" /\ ~isValidLatLng(params.latlng.v)
    THEN Error(LatlngInvalid)
  ELSE validateCommonParams(params)

ChIJ == <<"C", "h", "I", "J">>

\* validatePlaceParams accepting the prefix anywhere in the place_id
validatePlaceParams_Contains(params) ==
  IF ~params.present THEN Error(ReadOfUndefined)
  ELSE IF ~Truthy(params.place_id) THEN Error(PlaceIdRequired)
  ELSE IF params.place_id.t # "string" THEN Error(NotAFunction)
  ELSE IF ~\E i \in 1..Len(params.place_id.v) :
             startsWith(SubSeq(params.place_id.v, i, Len(params.place_id.v)),
                        ChIJ)
    THEN Error(PlaceIdInvalid)
  ELSE validateCommonParams(params)

\* GeocodingTool.validatePlaceParams
validatePlaceParams(params) ==
  IF ~params.present THEN Error(ReadOfUndefined)
  ELSE IF ~Truthy(params.place_id) THEN Error(PlaceIdRequired)
  ELSE IF params.place_id.t # "string" THEN Error(NotAFunction)
  ELSE IF ~startsWith(params.place_id.v, ChIJ) THEN Error(PlaceIdInvalid)
  ELSE validateCommonParams(params)

----------------------------------------------------------------------------
(* Request building *)

DefaultTimeout == 5000

EmptyObject == [k \in {} |-> Undefined]
Prop(k, val) == [x \in {k} |-> val]

\* { ...a, ...b }
Spread(a, b) ==
  [k \in DOMAIN a \cup DOMAIN b |-> IF k \in DOMAIN b THEN b[k] ELSE a[k]]

\* ...(x && { k: x }): nothing is spread when x is falsy
SpreadIf(x, k) == IF Truthy(x) THEN Prop(k, x) ELSE EmptyObject

\* Object.keys(o).forEach(k => o[k] === undefined && delete o[k])
RemoveUndefined(o) == [k \in {x \in DOMAIN o : o[x] # Undefined} |-> o[k]]

NoCall == [op |-> "none", params |-> EmptyObject, timeout |-> 0]

\* this.config.timeout ?? 5000: the default only for a missing timeout
CallTimeout_Nullish(cfg) ==
  IF cfg.timeout \in {Undefined, Null} THEN DefaultTimeout ELSE cfg.timeout.n

\* this.config.timeout || 5000
CallTimeout(cfg) ==
  IF Truthy(cfg.timeout) THEN cfg.timeout.n ELSE DefaultTimeout

\* executeForwardGeocode sending a region only when the caller gave one
executeForwardGeocode_NoDefaultRegion(params, cfg) ==
  LET requestParams ==
        Spread(Spread(
          [address |-> params.address,
           key |-> cfg.apiKey,
           language |-> Or(Or(params.language, cfg.defaultLanguage), Undefined),
           region |-> Or(params.region, Undefined),
           components |-> Or(params.components, Undefined),
           bounds |-> Or(params.bounds, Undefined)],
          SpreadIf(params.result_type, "result_type")),
          SpreadIf(params.location_type, "location_type"))
  IN [op |-> "geocode", params |-> RemoveUndefined(requestParams),
      timeout |-> CallTimeout(cfg)]

\* GeocodingTool.executeForwardGeocode, up to the call of client.geocode
executeForwardGeocode(params, cfg) ==
  LET requestParams ==
        Spread(Spread(
          [address |-> params.address,
           key |-> cfg.apiKey,
           language |-> Or(Or(params.language, cfg.defaultLanguage), Undefined),
           region |-> Or(Or(params.region, cfg.defaultRegion), Undefined),
           components |-> Or(params.components, Undefined),
           bounds |-> Or(params.bounds, Undefined)],
          SpreadIf(params.result_type, "result_type")),
          SpreadIf(params.location_type, "location_type"))
  IN [op |-> "geocode", params |-> RemoveUndefined(requestParams),
      timeout |-> CallTimeout(cfg)]

\* executeReverseGeocode passing on the bounds of the blob as forward does
executeReverseGeocode_SendsBounds(params, cfg) ==
  LET requestParams ==
        Spread(
          [latlng |-> params.latlng,
           key |-> cfg.apiKey,
           language |-> Or(Or(params.language, cfg.defaultLanguage), Undefined),
           bounds |-> Or(params.bounds, Undefined),
           result_type |-> params.result_type,
           location_type |-> params.location_type],
          SpreadIf(params.region, "region"))
  IN [op |-> "reverseGeocode", params |-> RemoveUndefined(requestParams),
      timeout |-> CallTimeout(cfg)]

\* executeReverseGeocode letting a key of the caller override the config's
executeReverseGeocode_CallerKey(params, cfg) ==
  LET requestParams ==
        Spread(
          [latlng |-> params.latlng,
           key |-> Or(params.key, cfg.apiKey),
           language |-> Or(Or(params.language, cfg.defaultLanguage), Undefined),
           result_type |-> params.result_type,
           location_type |-> params.location_type],
          SpreadIf(params.region, "region"))
  IN [op |-> "reverseGeocode", params |-> RemoveUndefined(requestParams),
      timeout |-> CallTimeout(cfg)]

\* GeocodingTool.executeReverseGeocode, up to the call of client.reverseGeocode
executeReverseGeocode(params, cfg) ==
  LET requestParams ==
        Spread(
          [latlng |-> params.latlng,
           key |-> cfg.apiKey,
           language |-> Or(Or(params.language, cfg.defaultLanguage), Undefined),
           result_type |-> params.result_type,
           location_type |-> params.location_type],
          SpreadIf(params.region, "region"))
  IN [op |-> "reverseGeocode", params |-> RemoveUndefined(requestParams),
      timeout |-> CallTimeout(cfg)]

\* executePlaceGeocode preferring the configured language to the caller's
executePlaceGeocode_DefaultFirst(params, cfg) ==
  LET requestParams ==
        Spread(Spread(Spread(
          [place_id |-> params.place_id,
           key |-> cfg.apiKey,
           language |-> Or(Or(cfg.defaultLanguage, params.language), Undefined)],
          SpreadIf(params.result_type, "result_type")),
          SpreadIf(params.location_type, "location_type")),
          SpreadIf(params.region, "region"))
  IN [op |-> "geocode", params |-> RemoveUndefined(requestParams),
      timeout |-> CallTimeout(cfg)]

\* GeocodingTool.executePlaceGeocode, up to the call of client.geocode
executePlaceGeocode(params, cfg) ==
  LET requestParams ==
        Spread(Spread(Spread(
          [place_id |-> params.place_id,
           key |-> cfg.apiKey,
           language |-> Or(Or(params.language, cfg.defaultLanguage), Undefined)],
          SpreadIf(params.result_type, "result_type")),
          SpreadIf(params.location_type, "location_type")),
          SpreadIf(params.region, "region"))
  IN [op |-> "geocode", params |-> RemoveUndefined(requestParams),
      timeout |-> CallTimeout(cfg)]

----------------------------------------------------------------------------
(* Configuration: loadConfig and the start of the server *)

\* the number NaN as a value of the config: falsy like 0, but not 0
NaNV == [t |-> "number", v |-> <<"NaN">>, n |-> 0]

\* parseInt(str, 10): white space, an optional sign and the longest run of
\* digits; NaN when there is no digit
parseInt(str) ==
  LET s == TrimStart(str)
      signed == Len(s) >= 1 /\ s[1] \in {"+", "-"}
      start == IF signed THEN 2 ELSE 1
      end == RunEnd(s, start)
  IN IF end < start THEN NaNV
     ELSE IF signed /\ s[1] = "-" THEN NumV(0 - DigitsValue(s, start, end))
     ELSE NumV(DigitsValue(s, start, end))

NoEnv ==
  [GOOGLE_MAPS_API_KEY |-> Undefined, TIMEOUT |-> Undefined,
   RATE_LIMIT |-> Undefined, DEFAULT_LANGUAGE |-> Undefined,
   DEFAULT_REGION |-> Undefined]

NoConfig ==
  [apiKey |-> Undefined, timeout |-> Undefined, rateLimit |-> Undefined,
   defaultLanguage |-> Undefined, defaultRegion |-> Undefined]

ApiKeyRequired ==
  "GOOGLE_MAPS_API_KEY environment variable is required. "
    \o "Please set it to your Google Maps API key."
TimeoutOutOfRange == "TIMEOUT must be between 1000 and 30000 milliseconds"
RateLimitOutOfRange ==
  "RATE_LIMIT must be between 1 and 100 requests per second"

DefaultRateLimit == 10

Loaded(cfg) == [error |-> NoError, config |-> cfg]
LoadFailed(msg) == [error |-> Error(msg), config |-> NoConfig]

\* loadConfig taking only an unset key for a missing one
loadConfig_OnlyUnset(e) ==
  IF e.GOOGLE_MAPS_API_KEY = Undefined THEN LoadFailed(ApiKeyRequired)
  ELSE
    LET cfg ==
          [apiKey |-> e.GOOGLE_MAPS_API_KEY,
           timeout |-> IF Truthy(e.TIMEOUT) THEN parseInt(e.TIMEOUT.v)
                       ELSE NumV(DefaultTimeout),
           rateLimit |-> IF Truthy(e.RATE_LIMIT) THEN parseInt(e.RATE_LIMIT.v)
                         ELSE NumV(DefaultRateLimit),
           defaultLanguage |-> Or(e.DEFAULT_LANGUAGE, StrV(<<"e", "n">>)),
           defaultRegion |-> e.DEFAULT_REGION]
    IN IF Truthy(cfg.timeout)
            /\ (cfg.timeout.n < 1000 \/ cfg.timeout.n > 30000)
         THEN LoadFailed(TimeoutOutOfRange)
       ELSE IF Truthy(cfg.rateLimit)
            /\ (cfg.rateLimit.n < 1 \/ cfg.rateLimit.n > 100)
         THEN LoadFailed(RateLimitOutOfRange)
       ELSE Loaded(cfg)

\* loadConfig, reading the environment e
loadConfig(e) ==
  IF ~Truthy(e.GOOGLE_MAPS_API_KEY) THEN LoadFailed(ApiKeyRequired)
  ELSE
    LET cfg ==
          [apiKey |-> e.GOOGLE_MAPS_API_KEY,
           timeout |-> IF Truthy(e.TIMEOUT) THEN parseInt(e.TIMEOUT.v)
                       ELSE NumV(DefaultTimeout),
           rateLimit |-> IF Truthy(e.RATE_LIMIT) THEN parseInt(e.RATE_LIMIT.v)
                         ELSE NumV(DefaultRateLimit),
           defaultLanguage |-> Or(e.DEFAULT_LANGUAGE, StrV(<<"e", "n">>)),
           defaultRegion |-> e.DEFAULT_REGION]
    IN IF Truthy(cfg.timeout)
            /\ (cfg.timeout.n < 1000 \/ cfg.timeout.n > 30000)
         THEN LoadFailed(TimeoutOutOfRange)
       ELSE IF Truthy(cfg.rateLimit)
            /\ (cfg.rateLimit.n < 1 \/ cfg.rateLimit.n > 100)
         THEN LoadFailed(RateLimitOutOfRange)
       ELSE Loaded(cfg)

\* the version read from package.json
Version == "1.0.0"

StartedLine == "Google Maps Geocoding MCP Server v" \o Version \o " started"

----------------------------------------------------------------------------
(* The inputs that are enumerated: configs, argument blobs, upstream        *)
(* outcomes                                                                 *)

En == <<"e", "n">>

\* the environments the server is started in
Envs ==
  [GOOGLE_MAPS_API_KEY : {Undefined, StrV(<<>>), StrV(<<"test_api_key">>)},
   TIMEOUT : {Undefined, StrV(<<"3", "0", "0", "0">>), StrV(<<"5", "0", "0">>)},
   RATE_LIMIT : {Undefined},
   DEFAULT_LANGUAGE : {Undefined},
   DEFAULT_REGION : {Undefined}]

\* values of TIMEOUT: unset, empty, both ends of the range and the numbers
\* next to them, zero, a negative number, text without a digit, and
\* numbers followed or preceded by something else
Timeouts ==
  {Undefined, StrV(<<>>), StrV(<<"0">>), StrV(<<"a", "b", "c">>),
   StrV(<<"9", "9", "9">>), StrV(<<"1", "0", "0", "0">>),
   StrV(<<"5", "0", "0", "0">>), StrV(<<"3", "0", "0", "0", "0">>),
   StrV(<<"3", "0", "0", "0", "1">>), StrV(<<"-", "5">>),
   StrV(<<"1", "5", "0", "0", "m", "s">>), StrV(<<" ", "2", "0", "0", "0">>),
   StrV(<<"1", "e", "4">>), StrV(<<"3", "0", "0", "0", ".", "7">>)}

\* values of RATE_LIMIT, likewise
RateLimits ==
  {Undefined, StrV(<<>>), StrV(<<"0">>), StrV(<<"a", "b", "c">>),
   StrV(<<"1">>), StrV(<<"5", "0">>), StrV(<<"1", "0", "0">>),
   StrV(<<"1", "0", "1">>), StrV(<<"-", "1">>)}

\* the environments of the sweep over TIMEOUT and RATE_LIMIT
ConfigEnvs ==
  [GOOGLE_MAPS_API_KEY : {StrV(<<"test_api_key">>)},
   TIMEOUT : Timeouts,
   RATE_LIMIT : RateLimits,
   DEFAULT_LANGUAGE : {Undefined},
   DEFAULT_REGION : {Undefined}]

\* what the transport's connect can reject with
ConnectFailures == {Error("stdin closed")}

\* ServerConfig objects a program constructs the tool on: apiKey always,
\* the other fields optional (a timeout is what loadConfig always sets)
Configs ==
  [apiKey : {StrV(<<"test_api_key">>)},
   timeout : {Undefined},
   rateLimit : {Undefined},
   defaultLanguage : {Undefined, StrV(En)},
   defaultRegion : {Undefined, StrV(<<"u", "s">>)}]

NoArgs ==
  [present |-> FALSE, address |-> Undefined, latlng |-> Undefined,
   place_id |-> Undefined, key |-> Undefined, language |-> Undefined,
   region |-> Undefined, components |-> Undefined, bounds |-> Undefined,
   result_type |-> Undefined, location_type |-> Undefined]

EmptyArgs == [NoArgs EXCEPT !.present = TRUE]

Addresses ==
  {Undefined, Null, NumV(5), StrV(<<>>), StrV(<<" ", "a", " ">>)}
    \cup {StrV(Repeat(" ", k)) : k \in 1..MaxShort}
    \cup {StrV(Repeat("a", k)) : k \in 1..MaxShort}
    \cup {StrV(Repeat("a", k)) :
            k \in (MaxAddressLength - 1)..(MaxAddressLength + 1)}
    \cup {StrV(Repeat(" ", MaxAddressLength + 1)),
          StrV(<<"a">> \o Repeat(" ", MaxAddressLength))}

\* the pieces the enumerated latlng strings are glued from
LatLngParts ==
  {<<>>, <<"0">>, <<"9", "0">>, <<"-", "9", "0">>, <<"9", "1">>,
   <<"-", "9", "1">>, <<"1", "8", "0">>, <<"-", "1", "8", "0">>,
   <<"1", "8", "1">>, <<"-", "1", "8", "1">>, <<" ", "4", "5", " ">>,
   <<"1", "x">>, <<"a", "b">>, <<"1", ".", "5">>,
   <<"I", "n", "f", "i", "n", "i", "t", "y">>, <<"1", "e", "2">>}

LatLngs ==
  {Undefined, Null, NumV(0), NumV(91), ArrV(<<"91", "0">>),
   ObjV(<<"lat:91", "lng:0">>), StrV(<<"1", ",", "2", ",", "3">>)}
    \cup {StrV(a) : a \in LatLngParts}
    \cup {StrV(a \o <<",">> \o b) : a \in LatLngParts, b \in LatLngParts}

PlaceIds ==
  {Undefined, Null, NumV(7), StrV(<<>>), StrV(ChIJ),
   StrV(ChIJ \o <<"d", "8">>), StrV(<<"C", "h", "I">>),
   StrV(<<"x">> \o ChIJ), StrV(<<"c", "h", "i", "j">>)}

SomeAddress == StrV(<<"a", " ", "b">>)
SomeLatLng == StrV(<<"0", ",", "0">>)
SomePlaceId == StrV(ChIJ \o <<"d", "8">>)

\* a blob that every one of the three tools would accept
SomeRequest ==
  [EmptyArgs EXCEPT !.address = SomeAddress, !.latlng = SomeLatLng,
                    !.place_id = SomePlaceId]

OptionalFields ==
  {"key", "language", "region", "components", "bounds", "result_type",
   "location_type"}

\* every blob whose required field is f, drawn from prim, and whose other
\* fields are drawn from the small domains below
Blobs(f, prim) ==
  {b \in
     [present : {TRUE},
      address : IF f = "address" THEN prim ELSE {Undefined, SomeAddress},
      latlng : IF f = "latlng" THEN prim ELSE {Undefined, SomeLatLng},
      place_id : IF f = "place_id" THEN prim ELSE {Undefined, SomePlaceId},
      key : {Undefined, StrV(<<"caller_key">>)},
      language : {Undefined, Null, StrV(<<"f", "r">>), StrV(<<"E", "N">>)},
      region : {Undefined, StrV(<<"g", "b">>), StrV(<<"U", "S", "A">>)},
      components : {Undefined, ObjV(<<"country:US">>)},
      bounds : {Undefined, ObjV(<<"northeast", "southwest">>)},
      result_type : {Undefined, Null, ArrV(<<"street_address">>)},
      location_type : {Undefined, Null, ArrV(<<"ROOFTOP">>)}] :
     Cardinality({k \in (OptionalFields \cup {"address", "latlng", "place_id"})
                          \ {f} : b[k] # Undefined}) <= MaxOptional}

\* language and region values of every shape the two patterns tell apart
Languages ==
  {Undefined, Null, StrV(<<>>), StrV(En), StrV(<<"f", "r">>),
   StrV(<<"e", "n", "-", "U", "S">>), StrV(<<"E", "N">>),
   StrV(<<"e", "n", "-", "u", "s">>), StrV(<<"e", "n", "g">>),
   StrV(<<"e", "n", "_", "U", "S">>), StrV(<<"e", "n", "-", "U">>),
   StrV(<<"e", "n", "-", "U", "S", "A">>), StrV(<<"e", "1">>),
   StrV(<<"i", "n", "v", "a", "l", "i", "d", "-", "l", "a", "n", "g">>)}

Regions ==
  {Undefined, Null, StrV(<<>>), StrV(<<"u", "s">>), StrV(<<"g", "b">>),
   StrV(<<"U", "S", "A">>), StrV(<<"U", "S">>), StrV(<<"u">>),
   StrV(<<"u", "s", "a">>), StrV(<<"u", "1">>)}

\* the blob b with every language and region of the sweeps
CommonSweep(b) ==
  {[b EXCEPT !.language = l, !.region = r] : l \in Languages, r \in Regions}

\* the blobs handed to each operation: its required field swept over its
\* whole domain with nothing else set, a valid and a missing value of it
\* combined with up to MaxOptional other fields, a valid and a missing
\* value of it with every language and region; and no blob at all
ForwardArgs ==
  {NoArgs} \cup {[EmptyArgs EXCEPT !.address = a] : a \in Addresses}
    \cup Blobs("address", {SomeAddress, StrV(<<" ">>)})
    \cup CommonSweep([EmptyArgs EXCEPT !.address = SomeAddress])
    \cup CommonSweep(EmptyArgs)

ReverseArgs ==
  {NoArgs} \cup {[EmptyArgs EXCEPT !.latlng = l] : l \in LatLngs}
    \cup Blobs("latlng", {SomeLatLng, Undefined})
    \cup CommonSweep([EmptyArgs EXCEPT !.latlng = SomeLatLng])
    \cup CommonSweep([EmptyArgs EXCEPT !.latlng = StrV(<<"9", "1", ",", "0">>)])

PlaceArgs ==
  {NoArgs} \cup {[EmptyArgs EXCEPT !.place_id = p] : p \in PlaceIds}
    \cup Blobs("place_id", {SomePlaceId, Undefined})
    \cup CommonSweep([EmptyArgs EXCEPT !.place_id = SomePlaceId])
    \cup CommonSweep([EmptyArgs EXCEPT !.place_id = StrV(<<"x">>)])

\* the requests and outcomes of the runs in which two invocations overlap:
\* for each tool a request it accepts and one or two it refuses
OverlapForward ==
  {[EmptyArgs EXCEPT !.address = SomeAddress, !.language = StrV(<<"f", "r">>)],
   [EmptyArgs EXCEPT !.address = StrV(<<" ">>)],
   [EmptyArgs EXCEPT !.address = SomeAddress, !.language = StrV(<<"E", "N">>)]}

OverlapReverse ==
  {[EmptyArgs EXCEPT !.latlng = SomeLatLng],
   [EmptyArgs EXCEPT !.latlng = StrV(<<"9", "1", ",", "0">>)]}

OverlapPlace ==
  {[EmptyArgs EXCEPT !.place_id = SomePlaceId, !.region = StrV(<<"g", "b">>)],
   [EmptyArgs EXCEPT !.place_id = StrV(<<"x">>)]}

ResultRecords == {"r1", "r2"}

ResultSeqs == UNION {[1..n -> ResultRecords] : n \in 1..MaxResults}

\* bodies of a call that succeeded, as the geocoding service documents them:
\* OK with at least one result, or ZERO_RESULTS with none
SuccessBodies ==
  {Body("OK", rs, Absent) : rs \in ResultSeqs}
    \cup {Body("ZERO_RESULTS", <<>>, Absent)}

\* what a failed call throws: a network fault or timeout without a response,
\* an HTTP failure with the service's error body, with a body that is not
\* in the geocoding shape, with an empty, missing or null body, or a value
\* that is no Error, with or without a response
Failures ==
  {Error("timeout of 3000ms exceeded"),
   NoResponseError("Network Error"),
   ThrownString("socket hang up"),
   HttpError("Request failed with status code 403",
             Body("REQUEST_DENIED", <<>>, "The provided API key is invalid.")),
   HttpError("Request failed with status code 429",
             Body("OVER_QUERY_LIMIT", <<>>, Absent)),
   HttpError("Request failed with status code 500", MalformedBody),
   HttpError("Request failed with status code 502",
             TextBody("<html>502 Bad Gateway</html>")),
   HttpError("Request failed with status code 504", TextBody("")),
   HttpError("Request failed with status code 503", NoData),
   HttpError("Request failed with status code 500", NullData),
   ResponseObject(NoData)}

Resolved(d) == [kind |-> "resolve", data |-> d, error |-> NoError]
ResolvedUndefined == [kind |-> "resolveUndefined", data |-> NoData,
                      error |-> NoError]
Rejected(e) == [kind |-> "reject", data |-> NoData, error |-> e]
NoOutcome == [kind |-> "none", data |-> NoData, error |-> NoError]

OverlapBodies == {Body("OK", <<"r1">>, Absent)}

OverlapFailures ==
  {NoResponseError("Network Error"),
   HttpError("Request failed with status code 403",
             Body("REQUEST_DENIED", <<>>, "The provided API key is invalid."))}

----------------------------------------------------------------------------
(* The CallTool handler of the server: what it answers *)

KnownTools == {"geocode_forward", "geocode_reverse", "geocode_place"}

\* names that are none of the three cases of the switch
UnknownTools == {"geocode", "reverse_geocode", "GEOCODE_FORWARD", ""}

\* the text of a content item: JSON.stringify(value, null, 2), kept as the
\* value it is the JSON document of, or a plain message
JsonText(d) == [form |-> "json", value |-> d, chars |-> ""]
PlainText(str) == [form |-> "plain", value |-> NoData, chars |-> str]

\* what the handler's promise settles to: escaped tells that it rejected,
\* the handler having thrown instead of returning a result
NoReply ==
  [sent |-> FALSE, escaped |-> FALSE, isError |-> FALSE,
   text |-> PlainText("")]

\* { content: [{ type: "text", text: JSON.stringify(result, null, 2) }] }
TextResult(r) ==
  [sent |-> TRUE, escaped |-> FALSE, isError |-> FALSE,
   text |-> JsonText(r.value)]

\* `Unknown tool: ${name}`, for each name that is not a tool's
UnknownToolMessages ==
  {[name |-> n, message |-> "Unknown tool: " \o n] : n \in UnknownTools}

\* the default case: throw new Error(`Unknown tool: ${name}`)
UnknownTool(name) ==
  Error((CHOOSE m \in UnknownToolMessages : m.name = name).message)

\* `Error: ${message}`, for each message the try block can throw with
ErrorTexts ==
  {[message |-> m.message, chars |-> "Error: " \o m.message] :
     m \in UnknownToolMessages}

\* the catch block: { content: [{ type: "text", text: `Error: ${message}` }],
\* isError: true }
ErrorResult(error) ==
  [sent |-> TRUE, escaped |-> FALSE, isError |-> TRUE,
   text |-> PlainText(
     (CHOOSE t \in ErrorTexts : t.message = error.message).chars)]

\* an Error thrown outside every try block of the handler
Escaped(error) ==
  [sent |-> FALSE, escaped |-> TRUE, isError |-> FALSE,
   text |-> PlainText(error.message)]

\* the locals of one invocation of the handler and of the tool method it
\* awaits
NoPeer ==
  [pc |-> "idle", tool |-> "none", args |-> NoArgs, validation |-> NoError,
   outbound |-> NoCall, upstreamCalls |-> 0, outcome |-> NoOutcome,
   result |-> NoResult, reply |-> NoReply]

----------------------------------------------------------------------------
(* The operations *)

\* either the server process is about to run main, or a GeocodingTool has
\* been constructed on a config object directly, as the tests do
Init ==
  /\ \/ /\ process = "starting"
        /\ env \in Envs
        /\ config = NoConfig
     \/ /\ process = "hosted"
        /\ env = NoEnv
        /\ config \in Configs
  /\ exitCode = -1
  /\ stderr = <<>>
  /\ pc = "idle"
  /\ tool = "none"
  /\ args = NoArgs
  /\ validation = NoError
  /\ outbound = NoCall
  /\ upstreamCalls = 0
  /\ outcome = NoOutcome
  /\ result = NoResult
  /\ reply = NoReply
  /\ peer = NoPeer

\* console.error("Configuration error:", error.message), for each message
\* loadConfig throws with
ConfigurationErrorLines ==
  {[message |-> m, line |-> "Configuration error: " \o m] :
     m \in {ApiKeyRequired, TimeoutOutOfRange, RateLimitOutOfRange}}

\* console.error("Failed to start server:", error), for each failure of
\* the transport
FailedToStartLines ==
  {[message |-> e.message, line |-> "Failed to start server: " \o e.message] :
     e \in ConnectFailures}

\* main up to its await: loadConfig, then either the catch block, which
\* prints the diagnostic and exits with code 1, or the construction of the
\* GeocodingTool and of the server
Main ==
  /\ process = "starting"
  /\ LET loaded == loadConfig(env)
     IN IF loaded.error.thrown
          THEN /\ stderr' = Append(stderr,
                    (CHOOSE l \in ConfigurationErrorLines :
                       l.message = loaded.error.message).line)
               /\ exitCode' = 1
               /\ process' = "exited"
               /\ UNCHANGED config
          ELSE /\ config' = loaded.config
               /\ process' = "connecting"
               /\ UNCHANGED <<stderr, exitCode>>
  /\ UNCHANGED <<env, pc, tool, args, validation, outbound, upstreamCalls,
                 outcome, result, reply>>
  /\ UNCHANGED peer

\* server.connect(transport) resolves: main logs the start and returns
TransportConnects ==
  /\ process = "connecting"
  /\ stderr' = Append(stderr, StartedLine)
  /\ process' = "running"
  /\ UNCHANGED <<env, exitCode, config, pc, tool, args, validation, outbound,
                 upstreamCalls, outcome, result, reply>>
  /\ UNCHANGED peer

\* server.connect(transport) rejects: main().catch prints and exits
TransportFails(e) ==
  /\ process = "connecting"
  /\ stderr' = Append(stderr,
       (CHOOSE l \in FailedToStartLines : l.message = e.message).line)
  /\ exitCode' = 1
  /\ process' = "exited"
  /\ UNCHANGED <<env, config, pc, tool, args, validation, outbound,
                 upstreamCalls, outcome, result, reply>>
  /\ UNCHANGED peer

\* the SIGINT / SIGTERM handlers main installs: server.close(), then
\* process.exit(0); the process ends, and with it the request in hand
Shutdown ==
  /\ process = "running"
  /\ process' = "exited"
  /\ exitCode' = 0
  /\ pc' = "idle"
  /\ tool' = "none"
  /\ args' = NoArgs
  /\ validation' = NoError
  /\ outbound' = NoCall
  /\ upstreamCalls' = 0
  /\ outcome' = NoOutcome
  /\ result' = NoResult
  /\ reply' = NoReply
  /\ peer' = NoPeer
  /\ UNCHANGED <<env, stderr, config>>

\* geocodeForward issuing the upstream call before it looks at the
\* validation result
GeocodeForward_CallsBeforeValidating(params) ==
  /\ process \in {"running", "hosted"}
  /\ pc = "idle"
  /\ tool' = "geocode_forward"
  /\ args' = params
  /\ LET thrown == validateForwardParams(params)
     IN /\ validation' = thrown
        /\ outbound' = executeForwardGeocode(params, config)
        /\ upstreamCalls' = upstreamCalls + 1
        /\ IF thrown.thrown
             THEN /\ result' = handleError(thrown)
                  /\ reply' = TextResult(handleError(thrown))
                  /\ pc' = "done"
             ELSE /\ pc' = "pending"
                  /\ UNCHANGED <<result, reply>>
  /\ UNCHANGED <<config, outcome>>
  /\ UNCHANGED startup
  /\ UNCHANGED peer

\* geocodeForward keeping the caller's language as the default of the
\* calls to come
GeocodeForward_RemembersLanguage(params) ==
  /\ process \in {"running", "hosted"}
  /\ pc = "idle"
  /\ tool' = "geocode_forward"
  /\ args' = params
  /\ LET thrown == validateForwardParams(params)
     IN /\ validation' = thrown
        /\ IF thrown.thrown
             THEN /\ result' = handleError(thrown)
                  /\ reply' = TextResult(handleError(thrown))
                  /\ pc' = "done"
                  /\ UNCHANGED <<outbound, upstreamCalls, config>>
             ELSE /\ outbound' = executeForwardGeocode(params, config)
                  /\ config' =
                       [config EXCEPT
                          !.defaultLanguage = Or(params.language, @)]
                  /\ upstreamCalls' = upstreamCalls + 1
                  /\ pc' = "pending"
                  /\ UNCHANGED <<result, reply>>
  /\ UNCHANGED outcome
  /\ UNCHANGED startup
  /\ UNCHANGED peer

\* the handler's case "geocode_forward": geocodeForward up to its await,
\* that is validateForwardParams, then either the catch block, whose
\* response the handler serializes, or the call of the upstream client
GeocodeForward(params) ==
  /\ process \in {"running", "hosted"}
  /\ pc = "idle"
  /\ tool' = "geocode_forward"
  /\ args' = params
  /\ LET thrown == validateForwardParams(params)
     IN /\ validation' = thrown
        /\ IF thrown.thrown
             THEN /\ result' = handleError(thrown)
                  /\ reply' = TextResult(handleError(thrown))
                  /\ pc' = "done"
                  /\ UNCHANGED <<outbound, upstreamCalls>>
             ELSE /\ outbound' = executeForwardGeocode(params, config)
                  /\ upstreamCalls' = upstreamCalls + 1
                  /\ pc' = "pending"
                  /\ UNCHANGED <<result, reply>>
  /\ UNCHANGED <<config, outcome>>
  /\ UNCHANGED startup
  /\ UNCHANGED peer

\* geocodeReverse up to its await
GeocodeReverse(params) ==
  /\ process \in {"running", "hosted"}
  /\ pc = "idle"
  /\ tool' = "geocode_reverse"
  /\ args' = params
  /\ LET thrown == validateReverseParams(params)
     IN /\ validation' = thrown
        /\ IF thrown.thrown
             THEN /\ result' = handleError(thrown)
                  /\ reply' = TextResult(handleError(thrown))
                  /\ pc' = "done"
                  /\ UNCHANGED <<outbound, upstreamCalls>>
             ELSE /\ outbound' = executeReverseGeocode(params, config)
                  /\ upstreamCalls' = upstreamCalls + 1
                  /\ pc' = "pending"
                  /\ UNCHANGED <<result, reply>>
  /\ UNCHANGED <<config, outcome>>
  /\ UNCHANGED startup
  /\ UNCHANGED peer

\* `Error: ${message}` for what validatePlaceParams throws
RethrownTexts ==
  {[message |-> m, chars |-> "Error: " \o m] :
     m \in {PlaceIdRequired, PlaceIdInvalid, LanguageInvalid, RegionInvalid,
            ReadOfUndefined, NotAFunction}}

\* geocodePlace without its catch block: what validation throws reaches
\* the catch block of the handler
GeocodePlace_Rethrows(params) ==
  /\ process \in {"running", "hosted"}
  /\ pc = "idle"
  /\ tool' = "geocode_place"
  /\ args' = params
  /\ LET thrown == validatePlaceParams(params)
     IN /\ validation' = thrown
        /\ IF thrown.thrown
             THEN /\ result' = Throw(thrown)
                  /\ reply' =
                       [sent |-> TRUE, escaped |-> FALSE, isError |-> TRUE,
                        text |-> PlainText(
                          (CHOOSE t \in RethrownTexts :
                             t.message = thrown.message).chars)]
                  /\ pc' = "done"
                  /\ UNCHANGED <<outbound, upstreamCalls>>
             ELSE /\ outbound' = executePlaceGeocode(params, config)
                  /\ upstreamCalls' = upstreamCalls + 1
                  /\ pc' = "pending"
                  /\ UNCHANGED <<result, reply>>
  /\ UNCHANGED <<config, outcome>>
  /\ UNCHANGED startup
  /\ UNCHANGED peer

\* geocodePlace up to its await
GeocodePlace(params) ==
  /\ process \in {"running", "hosted"}
  /\ pc = "idle"
  /\ tool' = "geocode_place"
  /\ args' = params
  /\ LET thrown == validatePlaceParams(params)
     IN /\ validation' = thrown
        /\ IF thrown.thrown
             THEN /\ result' = handleError(thrown)
                  /\ reply' = TextResult(handleError(thrown))
                  /\ pc' = "done"
                  /\ UNCHANGED <<outbound, upstreamCalls>>
             ELSE /\ outbound' = executePlaceGeocode(params, config)
                  /\ upstreamCalls' = upstreamCalls + 1
                  /\ pc' = "pending"
                  /\ UNCHANGED <<result, reply>>
  /\ UNCHANGED <<config, outcome>>
  /\ UNCHANGED startup
  /\ UNCHANGED peer

\* the continuation returning only the first result record
Resume_FirstResultOnly(o) ==
  IF o.kind = "resolve"
    THEN Return([o.data EXCEPT !.results = SubSeq(o.data.results, 1, 1)])
  ELSE IF o.kind = "resolveUndefined" THEN handleError(Error(ReadOfUndefined))
  ELSE handleError(o.error)

\* the rest of geocodeForward / geocodeReverse / geocodePlace once the
\* awaited call has settled as o: `return result.response.data`, or the
\* catch block
Resume(o) ==
  IF o.kind = "resolve" THEN Return(o.data)
  ELSE IF o.kind = "resolveUndefined" THEN handleError(Error(ReadOfUndefined))
  ELSE handleError(o.error)

\* the upstream client's promise resolves
UpstreamResolves(o) ==
  /\ pc = "pending"
  /\ outcome' = o
  /\ result' = Resume(o)
  /\ reply' = TextResult(Resume(o))
  /\ pc' = "done"
  /\ UNCHANGED <<config, tool, args, validation, outbound, upstreamCalls>>
  /\ UNCHANGED startup
  /\ UNCHANGED peer

\* a rejection answered by calling the upstream client once more
UpstreamRejects_Retries(e) ==
  /\ pc = "pending"
  /\ outcome' = Rejected(e)
  /\ IF upstreamCalls < 2
       THEN /\ upstreamCalls' = upstreamCalls + 1
            /\ UNCHANGED <<pc, result, reply>>
       ELSE /\ result' = Resume(Rejected(e))
            /\ reply' = TextResult(Resume(Rejected(e)))
            /\ pc' = "done"
            /\ UNCHANGED upstreamCalls
  /\ UNCHANGED <<config, tool, args, validation, outbound>>
  /\ UNCHANGED startup
  /\ UNCHANGED peer

\* a rejection nothing catches: the unhandledRejection handler of the
\* server prints it and exits
UpstreamRejects_Unhandled(e) ==
  /\ pc = "pending"
  /\ outcome' = Rejected(e)
  /\ IF process = "running"
       THEN /\ process' = "exited"
            /\ exitCode' = 1
            /\ stderr' = Append(stderr, "Unhandled Rejection at:")
            /\ UNCHANGED <<env, pc, result, reply>>
       ELSE /\ result' = Resume(Rejected(e))
            /\ reply' = TextResult(Resume(Rejected(e)))
            /\ pc' = "done"
            /\ UNCHANGED startup
  /\ UNCHANGED <<config, tool, args, validation, outbound, upstreamCalls>>
  /\ UNCHANGED peer

\* the upstream client's promise rejects
UpstreamRejects(e) ==
  /\ pc = "pending"
  /\ outcome' = Rejected(e)
  /\ result' = Resume(Rejected(e))
  /\ reply' = TextResult(Resume(Rejected(e)))
  /\ pc' = "done"
  /\ UNCHANGED <<config, tool, args, validation, outbound, upstreamCalls>>
  /\ UNCHANGED startup
  /\ UNCHANGED peer

\* the Error for an unknown name thrown outside the handler's try block
CallUnknownTool_ThrowsOutsideTry(name, params) ==
  /\ process \in {"running", "hosted"}
  /\ pc = "idle"
  /\ tool' = name
  /\ args' = params
  /\ reply' = Escaped(UnknownTool(name))
  /\ pc' = "refused"
  /\ UNCHANGED <<config, validation, outbound, upstreamCalls, outcome, result>>
  /\ UNCHANGED startup
  /\ UNCHANGED peer

\* the handler's default case: the name is none of the three tools; the
\* Error it throws is caught by the handler's own catch block
CallUnknownTool(name, params) ==
  /\ process \in {"running", "hosted"}
  /\ pc = "idle"
  /\ tool' = name
  /\ args' = params
  /\ reply' = ErrorResult(UnknownTool(name))
  /\ pc' = "refused"
  /\ UNCHANGED <<config, validation, outbound, upstreamCalls, outcome, result>>
  /\ UNCHANGED startup
  /\ UNCHANGED peer

\* the locals of the invocation in hand
Frame ==
  [pc |-> pc, tool |-> tool, args |-> args, validation |-> validation,
   outbound |-> outbound, upstreamCalls |-> upstreamCalls,
   outcome |-> outcome, result |-> result, reply |-> reply]

\* the handler is an async function: while an invocation is suspended at
\* its await (or none is in hand) the event loop runs the other one, be it
\* a new call or one whose upstream call is about to settle.  The
\* invocation in hand and the suspended one change places.
Yield ==
  /\ process \in {"running", "hosted"}
  /\ pc \in {"idle", "pending"}
  /\ peer.pc \in {"idle", "pending"}
  /\ peer # Frame
  /\ peer' = Frame
  /\ pc' = peer.pc
  /\ tool' = peer.tool
  /\ args' = peer.args
  /\ validation' = peer.validation
  /\ outbound' = peer.outbound
  /\ upstreamCalls' = peer.upstreamCalls
  /\ outcome' = peer.outcome
  /\ result' = peer.result
  /\ reply' = peer.reply
  /\ UNCHANGED config
  /\ UNCHANGED startup

\* the caller has its response; the tool holds nothing of the request
Deliver ==
  /\ pc \in {"done", "refused"}
  /\ pc' = "idle"
  /\ tool' = "none"
  /\ args' = NoArgs
  /\ validation' = NoError
  /\ outbound' = NoCall
  /\ upstreamCalls' = 0
  /\ outcome' = NoOutcome
  /\ result' = NoResult
  /\ reply' = NoReply
  /\ UNCHANGED config
  /\ UNCHANGED startup
  /\ UNCHANGED peer

Next ==
  \/ Main
  \/ TransportConnects
  \/ \E e \in ConnectFailures : TransportFails(e)
  \/ Shutdown
  \/ \E params \in ForwardArgs : GeocodeForward(params)
  \/ \E params \in ReverseArgs : GeocodeReverse(params)
  \/ \E params \in PlaceArgs : GeocodePlace(params)
  \/ \E d \in SuccessBodies : UpstreamResolves(Resolved(d))
  \/ UpstreamResolves(ResolvedUndefined)
  \/ \E e \in Failures : UpstreamRejects(e)
  \/ \E name \in UnknownTools, params \in {NoArgs, EmptyArgs, SomeRequest} :
       CallUnknownTool(name, params)
  \/ Deliver

Spec == Init /\ [][Next]_vars

\* the server started by main in each environment of the sweep
InitConfig ==
  /\ process = "starting"
  /\ env \in ConfigEnvs
  /\ config = NoConfig
  /\ exitCode = -1
  /\ stderr = <<>>
  /\ pc = "idle"
  /\ tool = "none"
  /\ args = NoArgs
  /\ validation = NoError
  /\ outbound = NoCall
  /\ upstreamCalls = 0
  /\ outcome = NoOutcome
  /\ result = NoResult
  /\ reply = NoReply
  /\ peer = NoPeer

\* the server of the sweep serving one request the three tools accept
NextConfig ==
  \/ Main
  \/ TransportConnects
  \/ \E e \in ConnectFailures : TransportFails(e)
  \/ GeocodeForward(SomeRequest)
  \/ GeocodeReverse(SomeRequest)
  \/ GeocodePlace(SomeRequest)
  \/ UpstreamResolves(Resolved(Body("ZERO_RESULTS", <<>>, Absent)))
  \/ UpstreamRejects(Error("timeout of 3000ms exceeded"))
  \/ Deliver

SpecConfig == InitConfig /\ [][NextConfig]_vars

\* a tool on each config, no call in hand and none suspended
InitOverlap ==
  /\ process = "hosted"
  /\ env = NoEnv
  /\ config \in Configs
  /\ exitCode = -1
  /\ stderr = <<>>
  /\ pc = "idle"
  /\ tool = "none"
  /\ args = NoArgs
  /\ validation = NoError
  /\ outbound = NoCall
  /\ upstreamCalls = 0
  /\ outcome = NoOutcome
  /\ result = NoResult
  /\ reply = NoReply
  /\ peer = NoPeer

\* calls that may be accepted while another is suspended at its await;
\* whether the server library does call the handler again before an earlier
\* invocation has settled is not decided by this code
NextOverlap ==
  \/ \E params \in OverlapForward : GeocodeForward(params)
  \/ \E params \in OverlapReverse : GeocodeReverse(params)
  \/ \E params \in OverlapPlace : GeocodePlace(params)
  \/ \E d \in OverlapBodies : UpstreamResolves(Resolved(d))
  \/ \E e \in OverlapFailures : UpstreamRejects(e)
  \/ Yield
  \/ Deliver

SpecOverlap == InitOverlap /\ [][NextOverlap]_vars

----------------------------------------------------------------------------
(* Properties *)

RuleReasons ==
  {AddressRequired, AddressTooLong, LatlngRequired, LatlngInvalid,
   PlaceIdRequired, PlaceIdInvalid, LanguageInvalid, RegionInvalid}

\* the request in hand failed one of the validation rules
FailedRule == validation.thrown /\ validation.message \in RuleReasons

\* a GeocodeResponse: an object with a status and a results sequence
WellFormed(d) == d.t = "object" /\ d.status # Absent /\ d.hasResults

\* the failed upstream call carried a response payload
HasPayload(e) == e.hasResponse /\ e.responseDefined /\ TruthyData(e.data)

\* C1: every call of geocodeForward, geocodeReverse and geocodePlace ends by
\* returning a well-formed GeocodeResponse (a status and a results
\* sequence), whatever the blob and the upstream outcome; nothing is thrown.
C1_EveryCallReturnsWellFormed ==
  pc = "done" => (result.kind = "return" /\ WellFormed(result.value))

\* C2: the returned response always has a results field, and it is the
\* empty sequence whenever validation failed or the upstream did not report
\* status OK, an error body surfaced from a failed call included.
C2_ResultsPresentAndEmptyOnError ==
  pc = "done" =>
    /\ result.kind = "return"
    /\ result.value.hasResults
    /\ (validation.thrown \/ outcome.kind # "resolve"
          \/ outcome.data.status # "OK") => result.value.results = <<>>

\* C3: a request that fails a validation rule never reaches the upstream
\* client, and its response is INVALID_REQUEST with empty results and the
\* reason of the failing rule as error_message.
C3_RuleFailureStaysLocal ==
  FailedRule =>
    /\ pc = "done"
    /\ upstreamCalls = 0
    /\ outbound = NoCall
    /\ result = Return(Body(INVALID_REQUEST, <<>>, validation.message))

C3_Witness ==
  /\ pc = "done"
  /\ tool = "geocode_place"
  /\ validation = Error(PlaceIdInvalid)
  /\ result.value.error_message = PlaceIdInvalid

\* C4: an upstream failure that carries only a message, no response
\* payload, is answered with INVALID_REQUEST, empty results and that
\* message as error_message.
C4_MessageOnlyFailureIsSynthesized ==
  (pc = "done" /\ outcome.kind = "reject"
     /\ ~(outcome.error.hasResponse /\ outcome.error.responseDefined)) =>
    /\ result.kind = "return"
    /\ result.value.t = "object"
    /\ result.value.status = INVALID_REQUEST
    /\ result.value.hasResults
    /\ result.value.results = <<>>
    /\ result.value.error_message =
         (IF outcome.error.isError THEN outcome.error.message
          ELSE outcome.error.str)

C4_Witness ==
  /\ pc = "done"
  /\ outcome = Rejected(Error("timeout of 3000ms exceeded"))
  /\ result.value.error_message = "timeout of 3000ms exceeded"

\* C5: an upstream failure that carries a response payload is answered with
\* exactly that payload: its status is not replaced by INVALID_REQUEST and
\* its error_message is not replaced by the failure's own message.
C5_PayloadSurfacedVerbatim ==
  (pc = "done" /\ outcome.kind = "reject" /\ HasPayload(outcome.error)) =>
    /\ result = Return(outcome.error.data)
    /\ result.value.status = outcome.error.data.status
    /\ result.value.results = outcome.error.data.results
    /\ result.value.error_message = outcome.error.data.error_message

C5_Witness ==
  /\ pc = "done"
  /\ outcome.kind = "reject"
  /\ outcome.error.data = Body("OVER_QUERY_LIMIT", <<>>, Absent)
  /\ result.value.status = "OVER_QUERY_LIMIT"
  /\ result.value.error_message = Absent

\* C6: when the upstream call succeeds the response is the upstream's data
\* unchanged: same status, same results in the same order, same
\* error_message.
C6_SuccessPassedThrough ==
  (pc = "done" /\ outcome.kind = "resolve") =>
    /\ result = Return(outcome.data)
    /\ result.value.status = outcome.data.status
    /\ result.value.results = outcome.data.results
    /\ result.value.error_message = outcome.data.error_message

C6_Witness ==
  /\ pc = "done"
  /\ tool = "geocode_reverse"
  /\ outcome.kind = "resolve"
  /\ result.value.status = "OK"
  /\ result.value.results = <<"r2", "r1">>

\* what each operation would send for the blob b under the config in force
Built(t, b) ==
  CASE t = "geocode_forward" -> executeForwardGeocode(b, config)
    [] t = "geocode_reverse" -> executeReverseGeocode(b, config)
    [] t = "geocode_place" -> executePlaceGeocode(b, config)

CallerKeys == {Undefined, Null, StrV(<<>>), StrV(<<"caller_key">>)}

\* C7: in every upstream call the key sent is the configured apiKey, and it
\* does not depend on the caller's arguments: blobs that differ only in a
\* caller-supplied key field send the same key.
C7_KeyFromConfigOnly ==
  upstreamCalls > 0 =>
    /\ "key" \in DOMAIN outbound.params
    /\ outbound.params["key"] = config.apiKey
    /\ \A k \in CallerKeys :
         Built(tool, [args EXCEPT !.key = k]).params["key"]
           = outbound.params["key"]

C7_Witness ==
  /\ pc = "pending"
  /\ tool = "geocode_reverse"
  /\ args.key = StrV(<<"caller_key">>)
  /\ outbound.params["key"] = StrV(<<"test_api_key">>)

\* every character of s is white space (true of the empty string)
Blank(s) == \A i \in 1..Len(s) : s[i] \in WhiteSpace

\* C8: a forward address that is missing, empty or blank fails with
\* "Address is required."; any other address longer than 2048 characters
\* fails with the too-long reason; one of at most 2048 characters passes
\* both rules (2048 itself passes, 2049 fails).
C8_AddressRules ==
  (tool = "geocode_forward" /\ args.present) =>
    /\ (args.address.t \in {"undefined", "null"}
          \/ (args.address.t = "string" /\ Blank(args.address.v)))
         => validation = Error(AddressRequired)
    /\ (args.address.t = "string" /\ ~Blank(args.address.v)
          /\ Len(args.address.v) > 2048)
         => validation = Error(AddressTooLong)
    /\ (args.address.t = "string" /\ ~Blank(args.address.v)
          /\ Len(args.address.v) <= 2048)
         => validation.message \notin {AddressRequired, AddressTooLong}

C8_Witness ==
  /\ pc = "pending"
  /\ tool = "geocode_forward"
  /\ Len(args.address.v) = 2048
  /\ validation = NoError

\* the part p is, from its first to its last character, a finite decimal
\* number
WhollyDecimal(p) ==
  LET x == parseFloat(p) IN ~x.nan /\ ~x.inf /\ p # <<>> /\ x.used = Len(p)

\* the latlng-format check as the specification words it
StrictLatLng(s) ==
  LET parts == split(s)
  IN /\ Len(parts) = 2
     /\ WhollyDecimal(trim(parts[1]))
     /\ WhollyDecimal(trim(parts[2]))
     /\ Geq(parseFloat(trim(parts[1])), -90)
     /\ Leq(parseFloat(trim(parts[1])), 90)
     /\ Geq(parseFloat(trim(parts[2])), -180)
     /\ Leq(parseFloat(trim(parts[2])), 180)

\* C9: the latlng-format check accepts a string if and only if it splits
\* on commas into exactly two parts that both are, after trimming, wholly a
\* finite decimal number, with latitude in [-90, 90] and longitude in
\* [-180, 180], bounds included.
C9_LatLngAcceptedIffWhollyDecimal ==
  (tool = "geocode_reverse" /\ args.present /\ args.latlng.t = "string"
     /\ Truthy(args.latlng)) =>
    (validation.message # LatlngInvalid <=> StrictLatLng(args.latlng.v))

\* the value passes the latlng-format check: it is a string the check accepts
PassesFormat(x) == x.t = "string" /\ isValidLatLng(x.v)

\* C10: a reverse request whose latlng is missing (undefined, null or an
\* empty value) fails with "Latlng is required.", and every latlng that is
\* present, of whatever type, but does not pass the format check fails with
\* the latlng-invalid reason, so none of them reaches the upstream.
C10_BadLatLngNeverReachesUpstream ==
  (tool = "geocode_reverse" /\ args.present) =>
    /\ ~Truthy(args.latlng) => validation = Error(LatlngRequired)
    /\ (Truthy(args.latlng) /\ ~PassesFormat(args.latlng))
         => (validation = Error(LatlngInvalid) /\ upstreamCalls = 0)

\* the string begins with the four characters C, h, I, J
HasPlacePrefix(s) ==
  Len(s) >= 4 /\ s[1] = "C" /\ s[2] = "h" /\ s[3] = "I" /\ s[4] = "J"

\* C11: a place request whose place_id is missing (undefined, null or the
\* empty string) fails with "Place ID is required."; a place_id string that
\* does not begin with ChIJ fails with the place-id-invalid reason and makes
\* no upstream call; every place_id string that begins with ChIJ passes
\* both place-id rules.
C11_PlaceIdRules ==
  (tool = "geocode_place" /\ args.present) =>
    /\ ~Truthy(args.place_id) => validation = Error(PlaceIdRequired)
    /\ (args.place_id.t = "string" /\ args.place_id.v # <<>>
          /\ ~HasPlacePrefix(args.place_id.v))
         => (validation = Error(PlaceIdInvalid) /\ upstreamCalls = 0)
    /\ (args.place_id.t = "string" /\ HasPlacePrefix(args.place_id.v))
         => validation.message \notin {PlaceIdRequired, PlaceIdInvalid}

C11_Witness ==
  /\ pc = "pending"
  /\ tool = "geocode_place"
  /\ args.place_id = StrV(ChIJ)
  /\ validation = NoError
  /\ outbound.params["place_id"] = StrV(ChIJ)

\* two lowercase letters, optionally followed by a hyphen and two uppercase
\* letters
LanguageTag(s) ==
  \/ (Len(s) = 2 /\ \A i \in {1, 2} : s[i] \in Lower)
  \/ (Len(s) = 5 /\ (\A i \in {1, 2} : s[i] \in Lower) /\ s[3] = "-"
        /\ \A i \in {4, 5} : s[i] \in Upper)

\* exactly two lowercase letters
RegionTag(s) == Len(s) = 2 /\ \A i \in {1, 2} : s[i] \in Lower

VariantReasons ==
  {AddressRequired, AddressTooLong, LatlngRequired, LatlngInvalid,
   PlaceIdRequired, PlaceIdInvalid}

\* the request in hand got past the rules of its own variant
PastVariantRules ==
  /\ tool \in KnownTools
  /\ args.present
  /\ validation.message \notin VariantReasons \cup {NotAFunction}

\* the verdict of each variant on a request whose own field is fine and
\* whose language and region are l and r
VerdictForward(l, r) ==
  validateForwardParams(
    [EmptyArgs EXCEPT !.address = SomeAddress, !.language = l, !.region = r])

VerdictReverse(l, r) ==
  validateReverseParams(
    [EmptyArgs EXCEPT !.latlng = SomeLatLng, !.language = l, !.region = r])

VerdictPlace(l, r) ==
  validatePlaceParams(
    [EmptyArgs EXCEPT !.place_id = SomePlaceId, !.language = l, !.region = r])

\* C12: in every variant a request that got past its own rules is judged
\* on language and region alone: a present language that is not a language
\* tag fails with the language reason and one that is a tag never does; a
\* present region that is not two lowercase letters fails with the region
\* reason (unless the language failed first) and one that is never does;
\* and forward, reverse and place give the same verdict for the same
\* language and region.
C12_CommonFiltersSameRule ==
  PastVariantRules =>
    /\ (Truthy(args.language) /\ ~LanguageTag(args.language.v))
         => validation = Error(LanguageInvalid)
    /\ (Truthy(args.language) /\ LanguageTag(args.language.v))
         => validation.message # LanguageInvalid
    /\ (Truthy(args.region) /\ ~RegionTag(args.region.v)
          /\ validation.message # LanguageInvalid)
         => validation = Error(RegionInvalid)
    /\ (Truthy(args.region) /\ RegionTag(args.region.v))
         => validation.message # RegionInvalid
    /\ VerdictForward(args.language, args.region) = validation
    /\ VerdictReverse(args.language, args.region) = validation
    /\ VerdictPlace(args.language, args.region) = validation

C12_Witness ==
  /\ pc = "done"
  /\ tool = "geocode_reverse"
  /\ args.latlng = SomeLatLng
  /\ args.language = StrV(<<"e", "n", "-", "U", "S">>)
  /\ args.region = StrV(<<"U", "S", "A">>)
  /\ validation = Error(RegionInvalid)

\* the rules of a variant in their order, each with whether b breaks it
RulesInOrder(t, b) ==
  (CASE t = "geocode_forward" ->
          <<[reason |-> AddressRequired,
             broken |-> ~Truthy(b.address) \/ Blank(b.address.v)],
            [reason |-> AddressTooLong,
             broken |-> Len(b.address.v) > 2048]>>
     [] t = "geocode_reverse" ->
          <<[reason |-> LatlngRequired, broken |-> ~Truthy(b.latlng)],
            [reason |-> LatlngInvalid, broken |-> ~PassesFormat(b.latlng)]>>
     [] t = "geocode_place" ->
          <<[reason |-> PlaceIdRequired, broken |-> ~Truthy(b.place_id)],
            [reason |-> PlaceIdInvalid,
             broken |-> ~HasPlacePrefix(b.place_id.v)]>>)
    \o <<[reason |-> LanguageInvalid,
          broken |-> Truthy(b.language) /\ ~LanguageTag(b.language.v)],
         [reason |-> RegionInvalid,
          broken |-> Truthy(b.region) /\ ~RegionTag(b.region.v)]>>

\* the reason of the earliest broken rule, NoError when none is broken
FirstBroken(rules) ==
  LET broken == {i \in 1..Len(rules) : rules[i].broken}
  IN IF broken = {} THEN NoError
     ELSE Error(rules[CHOOSE i \in broken : \A j \in broken : i <= j].reason)

\* the field the variant requires is a string or is missing
TypedRequest ==
  /\ tool \in KnownTools
  /\ args.present
  /\ (CASE tool = "geocode_forward" -> args.address.t
        [] tool = "geocode_reverse" -> args.latlng.t
        [] tool = "geocode_place" -> args.place_id.t)
       \in {"string", "undefined", "null"}

\* C13: validation reports the earliest broken rule and only that one, the
\* rules being ordered: presence of the variant's own field, its format or
\* length, the language, the region.
C13_FirstFailingRuleWins ==
  TypedRequest => validation = FirstBroken(RulesInOrder(tool, args))

C13_Witness ==
  /\ pc = "done"
  /\ tool = "geocode_forward"
  /\ args.address = StrV(<<" ">>)
  /\ args.language = StrV(<<"E", "N">>)
  /\ args.region = StrV(<<"U", "S", "A">>)
  /\ validation = Error(AddressRequired)

\* the caller gave the field a value: a string that is not empty
Supplied(x) == x.t = "string" /\ x.v # <<>>

\* the outbound parameter set of the call in hand carries the key k
Sent(k) == k \in DOMAIN outbound.params

\* C14: in every upstream call, of any variant, the language sent is the
\* caller's when the caller supplied one, whatever the configured default;
\* else the configured defaultLanguage when there is one; else no language
\* key is sent.
C14_LanguageFallback ==
  upstreamCalls > 0 =>
    /\ Supplied(args.language)
         => (Sent("language") /\ outbound.params["language"] = args.language)
    /\ (~Supplied(args.language) /\ Supplied(config.defaultLanguage))
         => (Sent("language")
               /\ outbound.params["language"] = config.defaultLanguage)
    /\ (~Supplied(args.language) /\ ~Supplied(config.defaultLanguage))
         => ~Sent("language")

C14_Witness ==
  /\ pc = "pending"
  /\ tool = "geocode_place"
  /\ args.language = StrV(<<"f", "r">>)
  /\ config.defaultLanguage = StrV(En)
  /\ outbound.params["language"] = StrV(<<"f", "r">>)

\* C15: a forward call sends the caller's region, else the configured
\* defaultRegion, else no region key; a reverse or place call sends a region
\* only when the caller supplied one, and then the caller's, so a configured
\* defaultRegion never shows in a reverse or place call.
C15_RegionAsymmetry ==
  upstreamCalls > 0 =>
    /\ Supplied(args.region)
         => (Sent("region") /\ outbound.params["region"] = args.region)
    /\ (tool = "geocode_forward" /\ ~Supplied(args.region)
          /\ Supplied(config.defaultRegion))
         => (Sent("region")
               /\ outbound.params["region"] = config.defaultRegion)
    /\ (tool = "geocode_forward" /\ ~Supplied(args.region)
          /\ ~Supplied(config.defaultRegion))
         => ~Sent("region")
    /\ (tool \in {"geocode_reverse", "geocode_place"}
          /\ ~Supplied(args.region))
         => ~Sent("region")

C15_Witness ==
  /\ pc = "pending"
  /\ tool = "geocode_reverse"
  /\ config.defaultRegion = StrV(<<"u", "s">>)
  /\ args.region = Undefined
  /\ args.language = StrV(<<"f", "r">>)
  /\ ~Sent("region")

\* C16: no upstream call, of any variant, carries a key whose value is
\* undefined, null or the empty string: a field the caller left out or gave
\* as null, and that has no default, is not a key of the outbound set.
C16_NoEmptyOutboundValues ==
  upstreamCalls > 0 =>
    \A k \in DOMAIN outbound.params :
      outbound.params[k] \notin {Undefined, Null, StrV(<<>>)}

CommonKeys == {"key", "language", "region", "result_type", "location_type"}

\* the keys a variant may send
VariantKeys(t) ==
  CASE t = "geocode_forward" ->
         {"address", "components", "bounds"} \cup CommonKeys
    [] t = "geocode_reverse" -> {"latlng"} \cup CommonKeys
    [] t = "geocode_place" -> {"place_id"} \cup CommonKeys

\* C17: every upstream call carries only keys of its variant, whatever
\* other fields the blob has (no bounds, components, address or place_id in
\* a reverse call; no bounds, components, address or latlng in a place
\* call), and the components, bounds, result_type and location_type it
\* carries are the caller's values unchanged.
C17_OnlyVariantKeys ==
  upstreamCalls > 0 =>
    /\ DOMAIN outbound.params \subseteq VariantKeys(tool)
    /\ \A k \in {"components", "bounds", "result_type", "location_type"} :
         Sent(k) => outbound.params[k] = args[k]

C17_Witness ==
  /\ pc = "pending"
  /\ tool = "geocode_reverse"
  /\ args.bounds = ObjV(<<"northeast", "southwest">>)
  /\ args.result_type = ArrV(<<"street_address">>)
  /\ ~Sent("bounds")
  /\ outbound.params["result_type"] = ArrV(<<"street_address">>)

\* C18: a request makes at most one upstream call: one when it passed
\* validation, none otherwise; the step in which that call settles, failed
\* or not, issues no further call and ends the request, and nothing but the
\* delivery of the response follows (or the shutdown of the server, which
\* issues no call either).
C18_SingleAttempt ==
  /\ [](/\ upstreamCalls \in {0, 1}
        /\ pc \in {"pending", "done"}
             => upstreamCalls = (IF validation.thrown THEN 0 ELSE 1))
  /\ [][/\ pc = "pending"
             => \/ (upstreamCalls' = upstreamCalls /\ outbound' = outbound
                      /\ pc' = "done")
                \/ (process' = "exited" /\ upstreamCalls' = 0)
        /\ pc = "done" => (pc' = "idle" /\ upstreamCalls' = 0)]_vars

C18_Witness ==
  /\ pc = "done"
  /\ outcome = Rejected(NoResponseError("Network Error"))
  /\ upstreamCalls = 1
  /\ result.value.status = INVALID_REQUEST

\* the text a refused call is answered with, per name
RefusalTexts ==
  {[name |-> n, chars |-> "Error: Unknown tool: " \o n] : n \in UnknownTools}

\* C19: a call that names none of the known tools is answered by the
\* handler itself with an error-flagged text "Error: Unknown tool: <name>":
\* the handler returns (nothing is thrown out of it), the answer is not the
\* JSON of a GeocodeResponse, no tool method ran and no upstream call was
\* made; and only such a call is refused.
C19_UnknownToolRefused ==
  /\ (tool \notin KnownTools \cup {"none"}) <=> pc = "refused"
  /\ pc = "refused" =>
       /\ reply.sent
       /\ ~reply.escaped
       /\ reply.isError
       /\ \E t \in RefusalTexts :
            t.name = tool /\ reply.text = PlainText(t.chars)
       /\ reply.text.form # "json"
       /\ result = NoResult
       /\ validation = NoError
       /\ upstreamCalls = 0
       /\ outbound = NoCall

C19_Witness ==
  /\ pc = "refused"
  /\ tool = "geocode"
  /\ args = SomeRequest
  /\ reply.isError
  /\ reply.text.chars = "Error: Unknown tool: geocode"

\* what main prints when the key is missing
KeyMissingLine == "Configuration error: " \o ApiKeyRequired

\* the server was started by main without GOOGLE_MAPS_API_KEY, or with an
\* empty one
KeyMissing == process # "hosted" /\ ~Supplied(env.GOOGLE_MAPS_API_KEY)

\* C20: when GOOGLE_MAPS_API_KEY is absent or empty, loadConfig throws and
\* yields no config; main prints the diagnostic and exits with code 1; no
\* GeocodingTool holds a config and no tool call is served: nothing
\* happens before main has run, and an exited process takes no step.
C20_MissingKeyFailsFast ==
  /\ [](KeyMissing =>
          /\ loadConfig(env) = LoadFailed(ApiKeyRequired)
          /\ process \in {"starting", "exited"}
          /\ config = NoConfig
          /\ pc = "idle" /\ tool = "none" /\ reply = NoReply
          /\ upstreamCalls = 0
          /\ process = "exited" =>
               /\ exitCode = 1
               /\ stderr = <<KeyMissingLine>>)
  /\ [][process # "exited"
          /\ (process = "starting" => process' \in {"connecting", "exited"})]_vars

C20_Witness ==
  /\ process = "exited"
  /\ env.GOOGLE_MAPS_API_KEY = StrV(<<>>)
  /\ env.TIMEOUT = StrV(<<"3", "0", "0", "0">>)
  /\ exitCode = 1
  /\ Len(stderr) = 1

\* a timeout or rate limit as the ServerConfig documents it: a whole number
\* of the range lo..hi
WithinRange(x, lo, hi) == x.t = "number" /\ x # NaNV /\ x.n \in lo..hi

\* C21: whatever TIMEOUT and RATE_LIMIT are, a config that loadConfig
\* returned has a timeout that is a whole number of 1000..30000, 5000 when
\* TIMEOUT is unset, and a rateLimit that is a whole number of 1..100;
\* values outside these ranges, 0 and text that is no number never yield a
\* loaded config.
C21_LoadedConfigInRange ==
  process \in {"connecting", "running"} =>
    /\ WithinRange(config.timeout, 1000, 30000)
    /\ env.TIMEOUT = Undefined => config.timeout = NumV(5000)
    /\ WithinRange(config.rateLimit, 1, 100)

\* the step leaves the process as it is
StaysUp == process' = process /\ exitCode' = exitCode /\ stderr' = stderr

\* the step is the shutdown of a running server: exit code 0, nothing
\* printed, no call answered
ShutsDown ==
  /\ process = "running"
  /\ process' = "exited"
  /\ exitCode' = 0
  /\ stderr' = stderr
  /\ tool' = "none"
  /\ reply' = NoReply

\* the step is taken by a server that has not started yet: main with a
\* config that does not load, or the transport failing to connect
StartFailed ==
  \/ process = "starting" /\ loadConfig(env).error.thrown
  \/ process = "connecting"

\* C22: no tool call makes the process exit.  A server that has started
\* stays running through every step of every call (a failed validation, a
\* failed or successful upstream call, an unknown tool), its exit code and
\* its diagnostics untouched; it ends only by the shutdown a signal asks
\* for, with code 0.  Every exit with a failure code is the config-load
\* failure of main or the failure of the transport to start.
C22_NoCallExits ==
  /\ [][(process \in {"running", "hosted"}) => (StaysUp \/ ShutsDown)]_vars
  /\ [][(process' = "exited" /\ exitCode' # 0) => StartFailed]_vars

C22_Witness ==
  /\ process = "running"
  /\ exitCode = -1
  /\ pc = "done"
  /\ tool = "geocode_forward"
  /\ outcome = Rejected(NoResponseError("Network Error"))
  /\ stderr = <<StartedLine>>

\* C23: each variant calls the upstream operation named for it: a forward
\* request the geocode operation, a reverse request the reverse-geocode
\* operation, and a place request the reverse-geocode operation too.
C23_VariantOperation ==
  upstreamCalls > 0 =>
    outbound.op = (CASE tool = "geocode_forward" -> "geocode"
                     [] tool = "geocode_reverse" -> "reverseGeocode"
                     [] tool = "geocode_place" -> "reverseGeocode")

\* what the response to an upstream outcome is to be: the data of a call
\* that succeeded, the payload of a failure that carries one, else the
\* synthesized response with the failure's message
Answer(o) ==
  IF o.kind = "resolve" THEN Return(o.data)
  ELSE IF HasPayload(o.error) THEN Return(o.error.data)
  ELSE Return(Synthesized(IF o.error.isError THEN o.error.message
                          ELSE o.error.str))

\* the invocation with the locals f is what its own arguments, the config
\* and its own upstream outcome make it: the verdict of validation, the
\* call issued and the response
OwnInputsOnly(f) ==
  f.tool \in KnownTools =>
    /\ f.validation = FirstBroken(RulesInOrder(f.tool, f.args))
    /\ f.validation.thrown =>
         /\ f.pc = "done"
         /\ f.upstreamCalls = 0
         /\ f.result = Return(Synthesized(f.validation.message))
    /\ ~f.validation.thrown =>
         /\ f.upstreamCalls = 1
         /\ f.outbound = Built(f.tool, f.args)
         /\ f.pc = "done" => f.result = Answer(f.outcome)
    /\ f.pc = "done" => f.reply = TextResult(f.result)

\* C25: requests share no state that changes.  The config the tool holds
\* is the same after every step of every call, and each invocation, the one
\* in hand and one suspended meanwhile, is what its own arguments, the
\* config and its own upstream outcome make it: the same malformed input
\* gets the same failure reason whatever was handled before it and whatever
\* is pending beside it, and a step of one invocation leaves the other
\* untouched.
C25_NoSharedState ==
  /\ [](OwnInputsOnly(Frame) /\ OwnInputsOnly(peer))
  /\ [][config' = config]_vars
  /\ [][peer' = peer \/ (peer' = Frame /\ Frame' = peer)]_vars

C25_Witness ==
  /\ pc = "done"
  /\ tool = "geocode_reverse"
  /\ validation = Error(LatlngInvalid)
  /\ result.value.error_message = LatlngInvalid
  /\ peer.pc = "pending"
  /\ peer.tool = "geocode_forward"
  /\ peer.outbound.params["language"] = StrV(<<"f", "r">>)

\* C26: every upstream call, of any variant, is made with the parameter
\* set built for the request and with the timeout of the config, or with
\* 5000 ms when the config has no timeout.
C26_BuiltParamsAndTimeout ==
  upstreamCalls > 0 =>
    /\ outbound.params = Built(tool, args).params
    /\ outbound.timeout = (IF config.timeout = Undefined THEN 5000
                           ELSE config.timeout.n)

\* C27: whatever TIMEOUT the server was started with, if its config
\* loaded then every upstream call is made with a timeout of 1000..30000;
\* a loaded timeout of 0 or NaN, which the range check of loadConfig lets
\* pass, is replaced by 5000 where the call is made.
C27_CallTimeoutInRange ==
  upstreamCalls > 0 =>
    /\ outbound.timeout \in 1000..30000
    /\ config.timeout \in {NumV(0), NaNV} => outbound.timeout = 5000
    /\ WithinRange(config.timeout, 1000, 30000)
         => outbound.timeout = config.timeout.n

C27_Witness ==
  /\ pc = "pending"
  /\ tool = "geocode_reverse"
  /\ env.TIMEOUT = StrV(<<"0">>)
  /\ config.timeout = NumV(0)
  /\ outbound.timeout = 5000

\* C28: a call of geocode_forward, geocode_reverse or geocode_place is
\* never answered with an error-flagged result: whether validation failed,
\* the upstream call failed or it succeeded, the handler returns an
\* ordinary text result whose text is the JSON of the response the tool
\* method returned; the error flag is set on the unknown-tool path only.
C28_KnownToolsNeverFlagged ==
  /\ (pc = "done" /\ tool \in KnownTools) =>
       /\ reply.sent
       /\ ~reply.escaped
       /\ ~reply.isError
       /\ result.kind = "return"
       /\ reply.text = JsonText(result.value)
  /\ reply.isError => (pc = "refused" /\ tool \notin KnownTools)

C28_Witness ==
  /\ process = "running"
  /\ pc = "done"
  /\ tool = "geocode_place"
  /\ validation = Error(PlaceIdRequired)
  /\ reply.sent
  /\ ~reply.isError
  /\ reply.text.form = "json"
  /\ reply.text.value.status = INVALID_REQUEST
  /\ reply.text.value.error_message = PlaceIdRequired

\* the data of a response is missing or empty: undefined, null or the
\* empty text
EmptyData(d) == d.t \in {"undefined", "null"} \/ (d.t = "string" /\ d.s = "")

\* the failure e without its response
WithoutResponse(e) ==
  [e EXCEPT !.hasResponse = FALSE, !.responseDefined = FALSE, !.data = NoData]

\* C29: an upstream failure that has a response object whose data is
\* missing or empty is answered like a failure without payload: with the
\* synthesized response, status INVALID_REQUEST, no results and as
\* error_message the failure's message, or its string form when it is not
\* an Error; the same response as for that failure without its response.
C29_EmptyPayloadIsSynthesized ==
  (/\ pc = "done"
   /\ outcome.kind = "reject"
   /\ outcome.error.hasResponse
   /\ outcome.error.responseDefined
   /\ EmptyData(outcome.error.data)) =>
    /\ result =
         Return(Body(INVALID_REQUEST, <<>>,
                     IF outcome.error.isError THEN outcome.error.message
                     ELSE outcome.error.str))
    /\ result = Resume(Rejected(WithoutResponse(outcome.error)))

C29_Witness ==
  /\ pc = "done"
  /\ tool = "geocode_place"
  /\ outcome =
       Rejected(HttpError("Request failed with status code 504", TextBody("")))
  /\ result.value.status = INVALID_REQUEST
  /\ result.value.results = <<>>
  /\ result.value.error_message = "Request failed with status code 504"

EmptyString == StrV(<<>>)

\* what validation makes of the blob b in the variant t
Verdict(t, b) ==
  CASE t = "geocode_forward" -> validateForwardParams(b)
    [] t = "geocode_reverse" -> validateReverseParams(b)
    [] t = "geocode_place" -> validatePlaceParams(b)

\* C30: in every variant a language or region that the caller gave as the
\* empty string counts as not given.  It never fails the language or the
\* region rule, the verdict is the one the request gets without it, and so
\* is the call: an empty language is replaced by the configured default
\* language when there is one and left out otherwise; an empty region is
\* replaced by the configured default region in a forward request and left
\* out otherwise.  The empty string is never sent.
C30_EmptyTagIsAbsent ==
  (tool \in KnownTools /\ args.present) =>
    /\ args.language = EmptyString =>
         /\ validation.message # LanguageInvalid
         /\ validation = Verdict(tool, [args EXCEPT !.language = Undefined])
         /\ upstreamCalls > 0 =>
              /\ outbound = Built(tool, [args EXCEPT !.language = Undefined])
              /\ IF Supplied(config.defaultLanguage)
                   THEN /\ Sent("language")
                        /\ outbound.params["language"] = config.defaultLanguage
                   ELSE ~Sent("language")
    /\ args.region = EmptyString =>
         /\ validation.message # RegionInvalid
         /\ validation = Verdict(tool, [args EXCEPT !.region = Undefined])
         /\ upstreamCalls > 0 =>
              /\ outbound = Built(tool, [args EXCEPT !.region = Undefined])
              /\ IF tool = "geocode_forward" /\ Supplied(config.defaultRegion)
                   THEN /\ Sent("region")
                        /\ outbound.params["region"] = config.defaultRegion
                   ELSE ~Sent("region")
    /\ upstreamCalls > 0 =>
         \A k \in {"language", "region"} :
           Sent(k) => outbound.params[k] # EmptyString

C30_Witness ==
  /\ pc = "pending"
  /\ tool = "geocode_forward"
  /\ args.language = EmptyString
  /\ args.region = EmptyString
  /\ validation = NoError
  /\ config.defaultLanguage = StrV(En)
  /\ config.defaultRegion = StrV(<<"u", "s">>)
  /\ outbound.params["language"] = StrV(En)
  /\ outbound.params["region"] = StrV(<<"u", "s">>)

====
